---- MODULE Spec2Model ----
(***************************************************************************)
(* Room / round / buzz-vote state machine of the CodeRed server.           *)
(*                                                                         *)
(* gameState.js (src/unnamed/part_000) holds the room registry and the     *)
(* pure room operations; socketHandlers.js wires them to socket events     *)
(* and timers.  Every socket handler and every timer callback is one task  *)
(* of the node event loop and is modelled as one action.                   *)
(*                                                                         *)
(* Encoding of JavaScript values:                                          *)
(*   null / undefined player id      -> NoPlayer (0)                       *)
(*   null / undefined time or number -> NoTime (-1)                        *)
(*   null activeVote                 -> NoVote                             *)
(*   null winner                     -> "null",  null winReason -> << >>   *)
(*   Map / Set                       -> sequence in insertion order        *)
(* Times are milliseconds as returned by Date.now().                       *)
(***************************************************************************)
EXTENDS Integers, Sequences, FiniteSets, TLC

\* ---------------------------------------------------------------- bounds
MaxPlayers == 3
MaxGames == 2
MaxVotes == 2
LobbyPlayers == 7
RoundPlayers == 5

\* The readings of Date.now() at which tasks run.
Instants == {0, 91500}

\* ------------------------------------------------------------ constants
RoomCode == "ABCD"
NoPlayer == 0
NoTime == 0 - 1
NoVote == [type |-> "null"]
ROUND_DURATION == 90
TOTAL_ROUNDS == 1
VOTE_DURATION == 60000
MAX_ROOM_SIZE == 6
MIN_PLAYERS == 3
EMPTY_ROOM_DELAY == 30000
END_ROUND_DELAY == 3000
ROUND_START_DELAY == 5000

PlayerIds == 1..MaxPlayers
Bugs == <<"bug1", "bug2">>

\* ------------------------------------------------------------- helpers
Range(s) == {s[i] : i \in DOMAIN s}

Max(a, b) == IF a >= b THEN a ELSE b

\* Math.floor(x / 1000) for an integer millisecond amount x (x may be negative)
FloorSec(x) == x \div 1000

\* all orderings of a finite set, as sequences without repetition
Perms(S) ==
  {s \in [1..Cardinality(S) -> S] : \A i, j \in 1..Cardinality(S) : i # j => s[i] # s[j]}

\* s without its i-th element (Array.prototype.splice(i, 1))
RemoveAt(s, i) == [j \in 1..(Len(s) - 1) |-> IF j < i THEN s[j] ELSE s[j + 1]]

\* ------------------------------------------------- players (a JS Map)
PlayerIdsOf(r) == {r.players[i].id : i \in DOMAIN r.players}

HasPlayer(r, id) == id \in PlayerIdsOf(r)

IndexOfPlayer(r, id) == CHOOSE i \in DOMAIN r.players : r.players[i].id = id

GetPlayer(r, id) == r.players[IndexOfPlayer(r, id)]

\* player?.disabled : falsy when the player is absent
IsDisabled(r, id) == HasPlayer(r, id) /\ GetPlayer(r, id).disabled

IsEnabledPlayer(p) == ~p.disabled

EnabledPlayers(r) == SelectSeq(r.players, IsEnabledPlayer)

NewPlayer(id, host) == [id |-> id, isHost |-> host, role |-> "null", disabled |-> FALSE]

\* ------------------------------------------------------- gameState.js
createRoom(hostId, t) ==
  [ hostId              |-> hostId,
    players             |-> <<NewPlayer(hostId, TRUE)>>,
    gameState           |-> "lobby",
    currentRound        |-> 0,
    totalRounds         |-> TOTAL_ROUNDS,
    roundStartTime      |-> NoTime,
    roundDuration       |-> ROUND_DURATION,
    currentCode         |-> [assigned |-> FALSE],
    bugger              |-> NoPlayer,
    debuggers           |-> << >>,
    buzzedPlayer        |-> NoPlayer,
    activeVote          |-> NoVote,
    winner              |-> "null",
    winReason           |-> << >>,
    timerPaused         |-> FALSE,
    pausedTimeRemaining |-> NoTime,
    emptyTimeout        |-> NoTime ]

\* an addPlayerToRoom whose capacity test is off by one
addPlayerToRoom_OffByOne(r, playerId) ==
  IF Len(r.players) > MAX_ROOM_SIZE
    THEN [error |-> "Room is full", room |-> r]
  ELSE IF r.gameState # "lobby"
    THEN [error |-> "Game already in progress", room |-> r]
  ELSE LET isFirstPlayer == Len(r.players) = 0
       IN [error |-> "",
           room  |-> [r EXCEPT !.emptyTimeout = NoTime,
                               !.players = Append(@, NewPlayer(playerId, isFirstPlayer)),
                               !.hostId = IF isFirstPlayer THEN playerId ELSE @]]

\* an addPlayerToRoom that leaves the pending empty-room timeout in place
addPlayerToRoom_KeepTimeout(r, playerId) ==
  IF Len(r.players) >= MAX_ROOM_SIZE
    THEN [error |-> "Room is full", room |-> r]
  ELSE IF r.gameState # "lobby"
    THEN [error |-> "Game already in progress", room |-> r]
  ELSE LET isFirstPlayer == Len(r.players) = 0
       IN [error |-> "",
           room  |-> [r EXCEPT !.players = Append(@, NewPlayer(playerId, isFirstPlayer)),
                               !.hostId = IF isFirstPlayer THEN playerId ELSE @]]

\* result of addPlayerToRoom: the error string ("" on success) and the room
addPlayerToRoom(r, playerId) ==
  IF Len(r.players) >= MAX_ROOM_SIZE
    THEN [error |-> "Room is full", room |-> r]
  ELSE IF r.gameState # "lobby"
    THEN [error |-> "Game already in progress", room |-> r]
  ELSE LET isFirstPlayer == Len(r.players) = 0
       IN [error |-> "",
           room  |-> [r EXCEPT !.emptyTimeout = NoTime,
                               !.players = Append(@, NewPlayer(playerId, isFirstPlayer)),
                               !.hostId = IF isFirstPlayer THEN playerId ELSE @]]

\* a removePlayerFromRoom that hands the room to nobody when the host leaves
removePlayerFromRoom_NoPromote(r, playerId, t) ==
  LET IsOther(p) == p.id # playerId
      rest == SelectSeq(r.players, IsOther)
  IN [r EXCEPT !.players = rest,
               !.emptyTimeout = IF Len(rest) = 0 THEN t + EMPTY_ROOM_DELAY ELSE @]

\* a removePlayerFromRoom that promotes the latest-joined remaining player
removePlayerFromRoom_PromoteLast(r, playerId, t) ==
  LET IsOther(p) == p.id # playerId
      rest == SelectSeq(r.players, IsOther)
      wasHost == r.hostId = playerId
      promoted == IF wasHost /\ Len(rest) > 0
                    THEN [rest EXCEPT ![Len(rest)].isHost = TRUE]
                    ELSE rest
  IN [r EXCEPT !.players = promoted,
               !.hostId = IF wasHost
                            THEN (IF Len(rest) > 0 THEN rest[Len(rest)].id ELSE NoPlayer)
                            ELSE @,
               !.emptyTimeout = IF Len(rest) = 0 THEN t + EMPTY_ROOM_DELAY ELSE @]

removePlayerFromRoom(r, playerId, t) ==
  LET IsOther(p) == p.id # playerId
      rest == SelectSeq(r.players, IsOther)
      wasHost == r.hostId = playerId
      promoted == IF wasHost /\ Len(rest) > 0
                    THEN [rest EXCEPT ![1].isHost = TRUE]
                    ELSE rest
  IN [r EXCEPT !.players = promoted,
               !.hostId = IF wasHost
                            THEN (IF Len(rest) > 0 THEN rest[1].id ELSE NoPlayer)
                            ELSE @,
               !.emptyTimeout = IF Len(rest) = 0 THEN t + EMPTY_ROOM_DELAY ELSE @]

\* an assignRoles that lists every shuffled player as a debugger
assignRoles_AllDebuggers(r, shuffled) ==
  [r EXCEPT !.bugger = shuffled[1],
            !.debuggers = shuffled,
            !.players = [i \in DOMAIN r.players |->
                           [r.players[i] EXCEPT !.role =
                              IF r.players[i].id = shuffled[1] THEN "bugger"
                              ELSE IF r.players[i].id \in Range(Tail(shuffled)) THEN "debugger"
                              ELSE @]]]

\* an assignRoles that writes the role of the new bugger only
assignRoles_BuggerOnly(r, shuffled) ==
  [r EXCEPT !.bugger = shuffled[1],
            !.debuggers = Tail(shuffled),
            !.players = [i \in DOMAIN r.players |->
                           [r.players[i] EXCEPT !.role =
                              IF r.players[i].id = shuffled[1] THEN "bugger" ELSE @]]]

\* assignRoles with the outcome `shuffled` of shuffleArray(playerIds)
assignRoles(r, shuffled) ==
  [r EXCEPT !.bugger = shuffled[1],
            !.debuggers = Tail(shuffled),
            !.players = [i \in DOMAIN r.players |->
                           [r.players[i] EXCEPT !.role =
                              IF r.players[i].id = shuffled[1] THEN "bugger"
                              ELSE IF r.players[i].id \in Range(Tail(shuffled)) THEN "debugger"
                              ELSE @]]]

\* codeSamples[0].correctCode, as the run of statements the bug patterns
\* look at: the head, the guard clause and the body of divide and squareRoot
correctCode ==
  << "divide(a, b) {",
     "if (b === 0) { throw new Error('Cannot divide by zero'); }",
     "const result = a / b;",
     "squareRoot(n) {",
     "if (n < 0) { throw new Error('Cannot calculate square root of negative number'); }",
     "const result = Math.sqrt(n);" >>

\* the regular expression of a bug id: a method head followed by its guard
\* clause; the replacement is the head alone.  No pattern for other ids.
BugPattern(bugId) ==
  IF bugId = "bug1" THEN <<correctCode[1], correctCode[2]>>
  ELSE IF bugId = "bug2" THEN <<correctCode[4], correctCode[5]>>
  ELSE << >>

\* the positions where the pattern pat matches in code
Matches(code, pat) ==
  {i \in 1..(Len(code) - 1) : Len(pat) = 2 /\ code[i] = pat[1] /\ code[i + 1] = pat[2]}

\* an injectBug that knows the divide pattern only
injectBug_DivideOnly(code, bugId) ==
  LET pat == BugPattern(bugId)
  IN IF bugId # "bug1" \/ Matches(code, pat) = {}
       THEN code
       ELSE RemoveAt(code, (CHOOSE i \in Matches(code, pat) :
                              \A j \in Matches(code, pat) : i <= j) + 1)

\* injectBug: String.replace on the first match of the pattern of bugId; the
\* code comes back unchanged when the id has no pattern or nothing matches
injectBug(code, bugId) ==
  LET pat == BugPattern(bugId)
  IN IF Len(pat) = 0 \/ Matches(code, pat) = {}
       THEN code
       ELSE RemoveAt(code, (CHOOSE i \in Matches(code, pat) :
                              \A j \in Matches(code, pat) : i <= j) + 1)

RECURSIVE AssignBugs_WithReplacement(_, _, _)
\* a bug assignment that leaves the drawn bug in the pool
AssignBugs_WithReplacement(debuggers, available, picks) ==
  IF Len(debuggers) = 0 \/ Len(available) = 0
    THEN << >>
    ELSE LET idx == ((picks[1] - 1) % Len(available)) + 1
         IN <<[playerId |-> Head(debuggers), bug |-> available[idx]]>>
            \o AssignBugs_WithReplacement(Tail(debuggers), available, Tail(picks))

RECURSIVE AssignBugs(_, _, _)
\* the forEach over room.debuggers; picks[k] is the k-th random index draw
AssignBugs(debuggers, available, picks) ==
  IF Len(debuggers) = 0 \/ Len(available) = 0
    THEN << >>
    ELSE LET idx == ((picks[1] - 1) % Len(available)) + 1
         IN <<[playerId |-> Head(debuggers), bug |-> available[idx]]>>
            \o AssignBugs(Tail(debuggers), RemoveAt(available, idx), Tail(picks))

RECURSIVE InjectAll(_, _)
InjectAll(code, assignments) ==
  IF Len(assignments) = 0 THEN code
  ELSE InjectAll(injectBug(code, Head(assignments).bug), Tail(assignments))

startRound(r, picks, t) ==
  LET bugAssignments == AssignBugs(r.debuggers, Bugs, picks)
  IN [r EXCEPT !.currentCode = [assigned         |-> TRUE,
                                bugAssignments   |-> bugAssignments,
                                initialBuggyCode |-> InjectAll(correctCode, bugAssignments)],
               !.roundStartTime = t,
               !.buzzedPlayer = NoPlayer,
               !.activeVote = NoVote]

startGame(r, shuffled, picks, t) ==
  IF Len(r.players) < MIN_PLAYERS
    THEN [error |-> "Need at least 3 players to start", room |-> r]
    ELSE [error |-> "",
          room  |-> startRound(assignRoles([r EXCEPT !.gameState = "playing",
                                                     !.currentRound = 1],
                                           shuffled), picks, t)]

\* ------------------------------------------------------ buzz and vote
SKIP == 0 - 2

VoterIds(v) == {v.votes[i].voterId : i \in DOMAIN v.votes}

HasVoteOpen(r) == r.activeVote.type = "vote_kick"

\* a handleBuzz without the player.disabled check
handleBuzz_NoDisabledCheck(r, playerId, t, voteId) ==
  IF r.gameState # "playing"
    THEN [kind |-> "null", error |-> "", room |-> r]
  ELSE [kind  |-> "ok",
        error |-> "",
        room  |-> [r EXCEPT !.buzzedPlayer = playerId,
                            !.activeVote = [type        |-> "vote_kick",
                                            initiatorId |-> playerId,
                                            votes       |-> << >>,
                                            skips       |-> << >>,
                                            startTime   |-> t,
                                            duration    |-> VOTE_DURATION,
                                            id          |-> voteId]]]

\* result of handleBuzz: kind "null" (returned null), "error" or "ok"
handleBuzz(r, playerId, t, voteId) ==
  IF r.gameState # "playing"
    THEN [kind |-> "null", error |-> "", room |-> r]
  ELSE IF IsDisabled(r, playerId)
    THEN [kind |-> "error", error |-> "You are disabled and cannot buzz", room |-> r]
  ELSE [kind  |-> "ok",
        error |-> "",
        room  |-> [r EXCEPT !.buzzedPlayer = playerId,
                            !.activeVote = [type        |-> "vote_kick",
                                            initiatorId |-> playerId,
                                            votes       |-> << >>,
                                            skips       |-> << >>,
                                            startTime   |-> t,
                                            duration    |-> VOTE_DURATION,
                                            id          |-> voteId]]]

\* a quorum that counts every seat, disabled ones included
AllVoted_AllPlayers(r) ==
  Len(r.activeVote.votes) + Len(r.activeVote.skips) >= Len(r.players)

\* totalVotesAndSkips >= enabledPlayers.length
AllVoted(r) ==
  Len(r.activeVote.votes) + Len(r.activeVote.skips) >= Len(EnabledPlayers(r))

\* a castBuzzVote without the voters.has(voterId) check
castBuzzVote_NoVotedCheck(r, voterId, targetVoteId) ==
  LET fail(msg) == [error |-> msg, room |-> r, allVoted |-> FALSE]
  IN IF ~HasVoteOpen(r) THEN fail("No active vote")
     ELSE IF ~HasPlayer(r, voterId) THEN fail("You are not in this room")
     ELSE IF IsDisabled(r, voterId) THEN fail("You are disabled and cannot vote")
     ELSE IF targetVoteId = SKIP
       THEN LET r2 == [r EXCEPT !.activeVote.skips = Append(@, voterId)]
            IN [error |-> "", room |-> r2, allVoted |-> AllVoted(r2)]
     ELSE IF ~HasPlayer(r, targetVoteId) THEN fail("Target player not found")
     ELSE IF IsDisabled(r, targetVoteId)
       THEN fail("Cannot vote for an already disabled player")
     ELSE IF voterId = targetVoteId THEN fail("You cannot vote for yourself")
     ELSE LET r2 == [r EXCEPT !.activeVote.votes =
                        Append(@, [voterId |-> voterId, targetId |-> targetVoteId])]
          IN [error |-> "", room |-> r2, allVoted |-> AllVoted(r2)]

\* a castBuzzVote that records the vote before it checks the target
castBuzzVote_RecordFirst(r, voterId, targetVoteId) ==
  LET fail(msg) == [error |-> msg, room |-> r, allVoted |-> FALSE]
      r2 == [r EXCEPT !.activeVote.votes =
               Append(@, [voterId |-> voterId, targetId |-> targetVoteId])]
      late(msg) == [error |-> msg, room |-> r2, allVoted |-> FALSE]
  IN IF ~HasVoteOpen(r) THEN fail("No active vote")
     ELSE IF ~HasPlayer(r, voterId) THEN fail("You are not in this room")
     ELSE IF IsDisabled(r, voterId) THEN fail("You are disabled and cannot vote")
     ELSE IF voterId \in VoterIds(r.activeVote) \/ voterId \in Range(r.activeVote.skips)
       THEN fail("You have already voted")
     ELSE IF targetVoteId = SKIP
       THEN LET r3 == [r EXCEPT !.activeVote.skips = Append(@, voterId)]
            IN [error |-> "", room |-> r3, allVoted |-> AllVoted(r3)]
     ELSE IF ~HasPlayer(r, targetVoteId) THEN late("Target player not found")
     ELSE IF IsDisabled(r, targetVoteId)
       THEN late("Cannot vote for an already disabled player")
     ELSE IF voterId = targetVoteId THEN late("You cannot vote for yourself")
     ELSE [error |-> "", room |-> r2, allVoted |-> AllVoted(r2)]

\* castBuzzVote without the check that a player does not vote for themselves
castBuzzVote_AllowSelfVote(r, voterId, targetVoteId) ==
  LET fail(msg) == [error |-> msg, room |-> r, allVoted |-> FALSE]
  IN IF ~HasVoteOpen(r) THEN fail("No active vote")
     ELSE IF ~HasPlayer(r, voterId) THEN fail("You are not in this room")
     ELSE IF IsDisabled(r, voterId) THEN fail("You are disabled and cannot vote")
     ELSE IF voterId \in VoterIds(r.activeVote) \/ voterId \in Range(r.activeVote.skips)
       THEN fail("You have already voted")
     ELSE IF targetVoteId = SKIP
       THEN LET r2 == [r EXCEPT !.activeVote.skips = Append(@, voterId)]
            IN [error |-> "", room |-> r2, allVoted |-> AllVoted(r2)]
     ELSE IF ~HasPlayer(r, targetVoteId) THEN fail("Target player not found")
     ELSE IF IsDisabled(r, targetVoteId)
       THEN fail("Cannot vote for an already disabled player")
     ELSE LET r2 == [r EXCEPT !.activeVote.votes =
                        Append(@, [voterId |-> voterId, targetId |-> targetVoteId])]
          IN [error |-> "", room |-> r2, allVoted |-> AllVoted(r2)]

\* result of castBuzzVote: error ("" on success), the room and allVoted
castBuzzVote(r, voterId, targetVoteId) ==
  LET fail(msg) == [error |-> msg, room |-> r, allVoted |-> FALSE]
  IN IF ~HasVoteOpen(r) THEN fail("No active vote")
     ELSE IF ~HasPlayer(r, voterId) THEN fail("You are not in this room")
     ELSE IF IsDisabled(r, voterId) THEN fail("You are disabled and cannot vote")
     ELSE IF voterId \in VoterIds(r.activeVote) \/ voterId \in Range(r.activeVote.skips)
       THEN fail("You have already voted")
     ELSE IF targetVoteId = SKIP
       THEN LET r2 == [r EXCEPT !.activeVote.skips = Append(@, voterId)]
            IN [error |-> "", room |-> r2, allVoted |-> AllVoted(r2)]
     ELSE IF ~HasPlayer(r, targetVoteId) THEN fail("Target player not found")
     ELSE IF IsDisabled(r, targetVoteId)
       THEN fail("Cannot vote for an already disabled player")
     ELSE IF voterId = targetVoteId THEN fail("You cannot vote for yourself")
     ELSE LET r2 == [r EXCEPT !.activeVote.votes =
                        Append(@, [voterId |-> voterId, targetId |-> targetVoteId])]
          IN [error |-> "", room |-> r2, allVoted |-> AllVoted(r2)]

RECURSIVE CountVotes(_, _)
\* the voteCount Map: one [id, count] entry per target, in order of first vote
CountVotes(votes, acc) ==
  IF Len(votes) = 0 THEN acc
  ELSE LET target == Head(votes).targetId
           known == \E i \in DOMAIN acc : acc[i].id = target
           acc2 == IF known
                     THEN [i \in DOMAIN acc |->
                             IF acc[i].id = target
                               THEN [acc[i] EXCEPT !.count = @ + 1]
                               ELSE acc[i]]
                     ELSE Append(acc, [id |-> target, count |-> 1])
       IN CountVotes(Tail(votes), acc2)

RECURSIVE ScanCounts(_, _)
\* the loop over voteCount.entries() keeping maxVotes / secondMaxVotes
ScanCounts(entries, st) ==
  IF Len(entries) = 0 THEN st
  ELSE LET e == Head(entries)
           st2 == IF e.count > st.maxVotes
                    THEN [playerToKick   |-> e.id,
                          maxVotes       |-> e.count,
                          secondMaxVotes |-> st.maxVotes]
                  ELSE IF e.count > st.secondMaxVotes
                    THEN [st EXCEPT !.secondMaxVotes = e.count]
                  ELSE st
       IN ScanCounts(Tail(entries), st2)

\* a majority test that ignores the runner-up
HasClearMajority_NoSecond(st) == st.maxVotes > 0

HasClearMajority(st) == st.maxVotes > 0 /\ st.maxVotes > st.secondMaxVotes

\* a getBuzzVoteResult that never reports the bugger as voted out
getBuzzVoteResult_NoBuggerCheck(r) ==
  LET voteCount == CountVotes(r.activeVote.votes, << >>)
      st == ScanCounts(voteCount,
                       [playerToKick |-> NoPlayer, maxVotes |-> 0, secondMaxVotes |-> 0])
      hasClearMajority == HasClearMajority(st)
  IN [shouldKick       |-> hasClearMajority,
      playerToKick     |-> st.playerToKick,
      maxVotes         |-> st.maxVotes,
      secondMaxVotes   |-> st.secondMaxVotes,
      voteCount        |-> voteCount,
      votedCount       |-> Len(r.activeVote.votes),
      skipCount        |-> Len(r.activeVote.skips),
      totalPlayers     |-> Len(EnabledPlayers(r)),
      hasClearMajority |-> hasClearMajority,
      buggerVotedOut   |-> FALSE]

\* getBuzzVoteResult for a room with an open vote
getBuzzVoteResult(r) ==
  LET voteCount == CountVotes(r.activeVote.votes, << >>)
      st == ScanCounts(voteCount,
                       [playerToKick |-> NoPlayer, maxVotes |-> 0, secondMaxVotes |-> 0])
      hasClearMajority == HasClearMajority(st)
  IN [shouldKick       |-> hasClearMajority,
      playerToKick     |-> st.playerToKick,
      maxVotes         |-> st.maxVotes,
      secondMaxVotes   |-> st.secondMaxVotes,
      voteCount        |-> voteCount,
      votedCount       |-> Len(r.activeVote.votes),
      skipCount        |-> Len(r.activeVote.skips),
      totalPlayers     |-> Len(EnabledPlayers(r)),
      hasClearMajority |-> hasClearMajority,
      buggerVotedOut   |-> hasClearMajority /\ st.playerToKick = r.bugger]

clearBuzzVote(r) == [r EXCEPT !.activeVote = NoVote]

\* result of validateFix: error ("" when accepted)
validateFix(r, playerId) ==
  IF r.buzzedPlayer # playerId THEN "Only the buzzed player can submit a fix"
  ELSE IF HasVoteOpen(r) THEN "Wait for vote to complete"
  ELSE ""

\* a checkBuggerWin without the two-enabled-players rule
checkBuggerWin_NoPairRule(r) ==
  LET IsEnabledDebugger(id) == HasPlayer(r, id) /\ ~IsDisabled(r, id)
      enabledDebuggers == SelectSeq(r.debuggers, IsEnabledDebugger)
      buggerEnabled == HasPlayer(r, r.bugger) /\ ~IsDisabled(r, r.bugger)
  IN Len(enabledDebuggers) = 0 /\ buggerEnabled

checkBuggerWin(r) ==
  LET IsEnabledDebugger(id) == HasPlayer(r, id) /\ ~IsDisabled(r, id)
      enabledDebuggers == SelectSeq(r.debuggers, IsEnabledDebugger)
      buggerEnabled == HasPlayer(r, r.bugger) /\ ~IsDisabled(r, r.bugger)
  IN \/ Len(enabledDebuggers) = 0 /\ buggerEnabled
     \/ Len(EnabledPlayers(r)) = 2 /\ buggerEnabled

\* the code read back from the shared editor at the end of a round:
\* present = a non-empty text; divide / sqrt = "guarded", "unguarded" or
\* "absent" (the method regex finds no match); syntaxOk = new Function succeeds
FinalCodes ==
  { [present |-> FALSE, divide |-> "absent",    sqrt |-> "absent",    syntaxOk |-> TRUE],
    [present |-> TRUE,  divide |-> "guarded",   sqrt |-> "guarded",   syntaxOk |-> TRUE],
    [present |-> TRUE,  divide |-> "unguarded", sqrt |-> "guarded",   syntaxOk |-> TRUE],
    [present |-> TRUE,  divide |-> "guarded",   sqrt |-> "unguarded", syntaxOk |-> FALSE],
    [present |-> TRUE,  divide |-> "absent",    sqrt |-> "unguarded", syntaxOk |-> TRUE] }

\* an end-of-game check that skips the squareRoot guard
ErrorDetails_NoSqrt(finalCode) ==
  (IF finalCode.divide = "unguarded" THEN <<"Divide bug: missing zero check">> ELSE << >>)
  \o (IF ~finalCode.syntaxOk THEN <<"Syntax error">> ELSE << >>)

ErrorDetails(finalCode) ==
  (IF finalCode.divide = "unguarded" THEN <<"Divide bug: missing zero check">> ELSE << >>)
  \o (IF finalCode.sqrt = "unguarded"
        THEN <<"SquareRoot bug: missing negative check">> ELSE << >>)
  \o (IF ~finalCode.syntaxOk THEN <<"Syntax error">> ELSE << >>)

\* result of endRound: threw = assignRoles hit a room without players
endRound(r, finalCode, shuffled, picks, t) ==
  IF r.currentRound >= r.totalRounds
    THEN LET errorDetails == IF finalCode.present /\ r.currentCode.assigned
                               THEN ErrorDetails(finalCode) ELSE << >>
         IN [threw |-> FALSE,
             room  |-> [r EXCEPT !.gameState = "results",
                                 !.winner = IF Len(errorDetails) > 0
                                              THEN "bugger" ELSE "debuggers",
                                 !.winReason = IF Len(errorDetails) > 0
                                                 THEN <<"Sabotager wins!">> \o errorDetails
                                                 ELSE <<"Fixers win! All bugs resolved!">>]]
  ELSE IF Len(r.players) = 0
    THEN [threw |-> TRUE,
          room  |-> [r EXCEPT !.currentRound = @ + 1,
                              !.bugger = NoPlayer,
                              !.debuggers = << >>]]
  ELSE [threw |-> FALSE,
        room  |-> startRound(assignRoles([r EXCEPT !.currentRound = @ + 1], shuffled),
                             picks, t)]

resetGame(r) ==
  [r EXCEPT !.gameState = "lobby",
            !.currentRound = 0,
            !.roundStartTime = NoTime,
            !.currentCode = [assigned |-> FALSE],
            !.bugger = NoPlayer,
            !.debuggers = << >>,
            !.buzzedPlayer = NoPlayer,
            !.activeVote = NoVote,
            !.winner = "null",
            !.winReason = << >>,
            !.players = [i \in DOMAIN r.players |->
                           [r.players[i] EXCEPT !.role = "null", !.disabled = FALSE]]]

\* ---------------------------------------------------- socketHandlers.js
\* null coerces to 0 in Date.now() - room.roundStartTime
Num(x) == IF x = NoTime THEN 0 ELSE x

\* room.roundDuration - Math.floor((Date.now() - room.roundStartTime) / 1000)
Remaining(r, t) == r.roundDuration - FloorSec(t - Num(r.roundStartTime))

\* a pauseRoundTimer that leaves the countdown running
pauseRoundTimer_NoPause(r, t) == r

pauseRoundTimer(r, t) ==
  IF r.timerPaused THEN r
  ELSE [r EXCEPT !.timerPaused = TRUE,
                 !.pausedTimeRemaining = Max(0, Remaining(r, t))]

\* a resumeRoundTimer that restarts the countdown from the full duration
resumeRoundTimer_Restart(r, t) ==
  IF ~r.timerPaused THEN r
  ELSE [r EXCEPT !.roundStartTime = t,
                 !.timerPaused = FALSE,
                 !.pausedTimeRemaining = NoTime]

resumeRoundTimer(r, t) ==
  IF ~r.timerPaused THEN r
  ELSE [r EXCEPT !.roundStartTime = t - ((r.roundDuration - r.pausedTimeRemaining) * 1000),
                 !.timerPaused = FALSE,
                 !.pausedTimeRemaining = NoTime]

\* a resolution that removes the seat instead of flagging it
DisablePlayer_Remove(r, id) ==
  LET IsOther(p) == p.id # id
  IN [r EXCEPT !.players = SelectSeq(@, IsOther)]

DisablePlayer(r, id) ==
  [r EXCEPT !.players = [i \in DOMAIN r.players |->
                           IF r.players[i].id = id
                             THEN [r.players[i] EXCEPT !.disabled = TRUE]
                             ELSE r.players[i]]]

\* handleBuzzVoteEnd on an existing room: acted = it got past the
\* `!room.activeVote` guard, ended = which gameEnded announcement it made
handleBuzzVoteEnd(r, t) ==
  IF ~HasVoteOpen(r) THEN [acted |-> FALSE, ended |-> "null", room |-> r]
  ELSE LET res == getBuzzVoteResult(r)
           kicked == DisablePlayer(r, res.playerToKick)
       IN IF ~res.hasClearMajority
            THEN [acted |-> TRUE, ended |-> "null",
                  room  |-> resumeRoundTimer(
                              clearBuzzVote([r EXCEPT !.buzzedPlayer = NoPlayer]), t)]
          ELSE IF res.buggerVotedOut
            THEN [acted |-> TRUE, ended |-> "debuggers",
                  room  |-> clearBuzzVote([kicked EXCEPT !.gameState = "results"])]
          ELSE IF checkBuggerWin(kicked)
            THEN [acted |-> TRUE, ended |-> "buggers",
                  room  |-> clearBuzzVote([kicked EXCEPT !.gameState = "results"])]
          ELSE [acted |-> TRUE, ended |-> "null",
                room  |-> resumeRoundTimer(
                            clearBuzzVote([kicked EXCEPT !.buzzedPlayer = NoPlayer]), t)]

\* ---------------------------------------------------------------- state
VARIABLES
  rooms,              \* the rooms Map: a function on {} or {RoomCode}
  usedCodes,          \* room codes generateRoomCode has handed out
  socketToPlayer,     \* ids of the players whose socket is still mapped to the room
  nextPlayerId,       \* number of player ids generated so far
  now,                \* Date.now()
  roundTimers,        \* TRUE iff the roundTimers Map has an entry for the room
  roundIntervals,     \* number of live round-tick intervals
  buzzVoteTimers,     \* vote id whose timeout handle the Map holds, 0 if no entry
  voteTimeouts,       \* pending vote-resolution timeouts: [id, deadline]
  updateIntervals,    \* number of live vote-tick intervals
  endRoundTimeouts,   \* deadlines of the pending delayed handleEndRound calls
  roundStartTimeouts, \* deadlines of the pending delayed round starts
  games,              \* history: number of successful startGame calls
  voteSeq,            \* history: number of votes opened
  resolved            \* history: the ids of the votes handleBuzzVoteEnd resolved, in order

vars == <<rooms, usedCodes, socketToPlayer, nextPlayerId, now, roundTimers,
          roundIntervals, buzzVoteTimers, voteTimeouts, updateIntervals,
          endRoundTimeouts, roundStartTimeouts, games, voteSeq, resolved>>

RoomExists == RoomCode \in DOMAIN rooms

room == rooms[RoomCode]

SetRoom(r) == rooms' = [c \in {RoomCode} |-> r]

Init ==
  /\ rooms = << >>
  /\ usedCodes = {}
  /\ socketToPlayer = {}
  /\ nextPlayerId = 0
  /\ now = 0
  /\ roundTimers = FALSE
  /\ roundIntervals = 0
  /\ buzzVoteTimers = 0
  /\ voteTimeouts = {}
  /\ updateIntervals = 0
  /\ endRoundTimeouts = << >>
  /\ roundStartTimeouts = << >>
  /\ games = 0
  /\ voteSeq = 0
  /\ resolved = << >>

\* -------------------------------------------------------- timer helpers
\* startRoundTimer: clear the interval the Map holds, start a new one
StartRoundTimer ==
  IF RoomExists
    THEN /\ roundIntervals' = (IF roundTimers THEN roundIntervals - 1 ELSE roundIntervals) + 1
         /\ roundTimers' = TRUE
    ELSE UNCHANGED <<roundTimers, roundIntervals>>

\* clearTimeout(buzzVoteTimers.get(roomCode)) applied to the pending timeouts
ClearVoteTimeout(timeouts, handle) == {x \in timeouts : x.id # handle}

\* a startBuzzVoteTimer that does not clear the timeout the Map holds
startBuzzVoteTimer_KeepOld(timeouts, handle, voteId, t) ==
  timeouts \cup {[id |-> voteId, deadline |-> t + VOTE_DURATION]}

\* startBuzzVoteTimer: the pending timeouts after scheduling the timeout of vote voteId
startBuzzVoteTimer(timeouts, handle, voteId, t) ==
  ClearVoteTimeout(timeouts, handle) \cup {[id |-> voteId, deadline |-> t + VOTE_DURATION]}

\* outcomes of shuffleArray(Array.from(room.players.keys()))
Shuffles(r) == IF Len(r.players) = 0 THEN {<< >>} ELSE Perms(PlayerIdsOf(r))

\* outcomes of the Math.random() index draws of startRound
Picks == [1..Len(Bugs) -> 1..Len(Bugs)]

\* The draws explored by the handlers below: the first index each time.  The
\* draws only decide which bug text a debugger is handed; no handler of the
\* room state machine reads it.
Draws == {[i \in 1..Len(Bugs) |-> 1]}

\* handleEndRound(io, roomCode)
HandleEndRound ==
  IF ~RoomExists
    THEN UNCHANGED <<rooms, roundStartTimeouts>>
    ELSE \E finalCode \in FinalCodes, shuffled \in Shuffles(room), picks \in Draws :
           LET res == endRound(room, finalCode, shuffled, picks, now)
           IN /\ SetRoom(res.room)
              /\ roundStartTimeouts' =
                   IF ~res.threw /\ res.room.gameState # "results"
                     THEN Append(roundStartTimeouts, now + ROUND_START_DELAY)
                     ELSE roundStartTimeouts

\* ------------------------------------------------------- socket handlers
\* the createRoom handler; n bounds the player ids generatePlayerId hands out
CreateRoomUpTo(n) ==
  /\ nextPlayerId < n
  /\ RoomCode \notin usedCodes
  /\ usedCodes' = usedCodes \cup {RoomCode}
  /\ nextPlayerId' = nextPlayerId + 1
  /\ SetRoom(createRoom(nextPlayerId + 1, now))
  /\ socketToPlayer' = socketToPlayer \cup {nextPlayerId + 1}
  /\ UNCHANGED <<now, roundTimers, roundIntervals, buzzVoteTimers, voteTimeouts,
                 updateIntervals, endRoundTimeouts, roundStartTimeouts, games, voteSeq,
                 resolved>>

CreateRoom == CreateRoomUpTo(MaxPlayers)

\* result of the joinRoom handler for a new player id: the error ("" on success)
JoinRoomError(playerId) ==
  IF ~RoomExists THEN "Room not found" ELSE addPlayerToRoom(room, playerId).error

\* the joinRoom handler; a rejected join changes nothing
JoinRoomUpTo(n) ==
  /\ IF JoinRoomError(nextPlayerId + 1) # ""
       THEN UNCHANGED <<rooms, socketToPlayer, nextPlayerId>>
       ELSE /\ nextPlayerId < n
            /\ SetRoom(addPlayerToRoom(room, nextPlayerId + 1).room)
            /\ nextPlayerId' = nextPlayerId + 1
            /\ socketToPlayer' = socketToPlayer \cup {nextPlayerId + 1}
  /\ UNCHANGED <<usedCodes, now, roundTimers, roundIntervals, buzzVoteTimers, voteTimeouts,
                 updateIntervals, endRoundTimeouts, roundStartTimeouts, games, voteSeq,
                 resolved>>

JoinRoom == JoinRoomUpTo(MaxPlayers)

\* a startGame handler without the host check
StartGameError_NoHostCheck(r, p) ==
  IF Len(r.players) < MIN_PLAYERS THEN "Need at least 3 players to start" ELSE ""

\* result of the startGame handler for player p: the error ("" on success)
StartGameError(r, p) ==
  IF r.hostId # p THEN "Only host can start game"
  ELSE IF Len(r.players) < MIN_PLAYERS THEN "Need at least 3 players to start"
  ELSE ""

\* the startGame handler; draws are the outcomes of the random index draws
StartGameDrawing(p, draws) ==
  /\ p \in socketToPlayer
  /\ RoomExists
  /\ IF StartGameError(room, p) # ""
       THEN UNCHANGED <<rooms, roundTimers, roundIntervals, games>>
       ELSE /\ games < MaxGames
            /\ games' = games + 1
            /\ \E shuffled \in Shuffles(room), picks \in draws :
                 SetRoom(startGame(room, shuffled, picks, now).room)
            /\ StartRoundTimer
  /\ UNCHANGED <<usedCodes, socketToPlayer, nextPlayerId, now, buzzVoteTimers, voteTimeouts,
                 updateIntervals, endRoundTimeouts, roundStartTimeouts, voteSeq, resolved>>

StartGame(p) == StartGameDrawing(p, Draws)

Buzz(p) ==
  /\ p \in socketToPlayer
  /\ RoomExists
  /\ LET res == handleBuzz(room, p, now, voteSeq + 1)
     IN IF res.kind # "ok"
          THEN UNCHANGED <<rooms, buzzVoteTimers, voteTimeouts, updateIntervals, voteSeq>>
          ELSE /\ voteSeq < MaxVotes
               /\ SetRoom(pauseRoundTimer(res.room, now))
               /\ voteTimeouts' = startBuzzVoteTimer(voteTimeouts, buzzVoteTimers,
                                                     voteSeq + 1, now)
               /\ buzzVoteTimers' = voteSeq + 1
               /\ updateIntervals' = updateIntervals + 1
               /\ voteSeq' = voteSeq + 1
  /\ UNCHANGED <<usedCodes, socketToPlayer, nextPlayerId, now, roundTimers, roundIntervals,
                 endRoundTimeouts, roundStartTimeouts, games, resolved>>

CastBuzzVote(p, target) ==
  /\ p \in socketToPlayer
  /\ RoomExists
  /\ LET res == castBuzzVote(room, p, target)
         end == handleBuzzVoteEnd(res.room, now)
     IN IF res.error # ""
          THEN UNCHANGED <<rooms, buzzVoteTimers, voteTimeouts, resolved>>
        ELSE IF ~res.allVoted
          THEN /\ SetRoom(res.room)
               /\ UNCHANGED <<buzzVoteTimers, voteTimeouts, resolved>>
        ELSE /\ SetRoom(end.room)
             /\ voteTimeouts' = ClearVoteTimeout(voteTimeouts, buzzVoteTimers)
             /\ buzzVoteTimers' = IF end.acted THEN 0 ELSE buzzVoteTimers
             /\ resolved' = IF end.acted
                              THEN Append(resolved, res.room.activeVote.id)
                              ELSE resolved
  /\ UNCHANGED <<usedCodes, socketToPlayer, nextPlayerId, now, roundTimers, roundIntervals,
                 updateIntervals, endRoundTimeouts, roundStartTimeouts, games, voteSeq>>

\* result of the submitFix handler for player p: the error ("" when accepted),
\* the room and the pending delayed handleEndRound calls it leaves behind
submitFix(r, p, pending, t) ==
  IF validateFix(r, p) # ""
    THEN [error |-> validateFix(r, p), room |-> r, endRoundTimeouts |-> pending]
    ELSE [error            |-> "",
          room             |-> [r EXCEPT !.buzzedPlayer = NoPlayer],
          endRoundTimeouts |-> Append(pending, t + END_ROUND_DELAY)]

SubmitFix(p) ==
  /\ p \in socketToPlayer
  /\ RoomExists
  /\ LET res == submitFix(room, p, endRoundTimeouts, now)
     IN /\ SetRoom(res.room)
        /\ endRoundTimeouts' = res.endRoundTimeouts
  /\ UNCHANGED <<usedCodes, socketToPlayer, nextPlayerId, now, roundTimers, roundIntervals,
                 buzzVoteTimers, voteTimeouts, updateIntervals, roundStartTimeouts, games,
                 voteSeq, resolved>>

NextRound(p) ==
  /\ p \in socketToPlayer
  /\ RoomExists
  /\ room.gameState = "playing"
  /\ StartRoundTimer
  /\ UNCHANGED <<rooms, usedCodes, socketToPlayer, nextPlayerId, now, buzzVoteTimers,
                 voteTimeouts, updateIntervals, endRoundTimeouts, roundStartTimeouts, games,
                 voteSeq, resolved>>

PlayAgain(p) ==
  /\ p \in socketToPlayer
  /\ RoomExists
  /\ SetRoom(resetGame(room))
  /\ UNCHANGED <<usedCodes, socketToPlayer, nextPlayerId, now, roundTimers, roundIntervals,
                 buzzVoteTimers, voteTimeouts, updateIntervals, endRoundTimeouts,
                 roundStartTimeouts, games, voteSeq, resolved>>

\* leave handlers that resolve the open vote instead of cancelling it
LeaveResult_Resolve(r, p, t) ==
  removePlayerFromRoom(handleBuzzVoteEnd(r, t).room, p, t)

\* leave handlers that end the game when the leave hands the bugger the win
LeaveResult_EndsGame(r, p, t) ==
  LET after == removePlayerFromRoom(IF HasVoteOpen(r) THEN clearBuzzVote(r) ELSE r, p, t)
  IN IF after.gameState = "playing" /\ checkBuggerWin(after)
       THEN [after EXCEPT !.gameState = "results", !.winner = "bugger"]
       ELSE after

\* what the leaveRoom and disconnect handlers do to the room
LeaveResult(r, p, t) ==
  removePlayerFromRoom(IF HasVoteOpen(r) THEN clearBuzzVote(r) ELSE r, p, t)

\* the body shared by the leaveRoom and disconnect handlers
Leave(p) ==
  /\ p \in socketToPlayer
  /\ socketToPlayer' = socketToPlayer \ {p}
  /\ IF RoomExists
       THEN /\ SetRoom(LeaveResult(room, p, now))
            /\ voteTimeouts' = IF HasVoteOpen(room)
                                 THEN ClearVoteTimeout(voteTimeouts, buzzVoteTimers)
                                 ELSE voteTimeouts
       ELSE UNCHANGED <<rooms, voteTimeouts>>
  /\ UNCHANGED <<usedCodes, nextPlayerId, now, roundTimers, roundIntervals, buzzVoteTimers,
                 updateIntervals, endRoundTimeouts, roundStartTimeouts, games, voteSeq,
                 resolved>>

LeaveRoom(p) == Leave(p)

Disconnect(p) == Leave(p)

\* -------------------------------------------------------- timer callbacks
\* a round tick that does not look at timerPaused
RoundTick_IgnorePause ==
  /\ roundIntervals > 0
  /\ IF ~RoomExists \/ room.gameState # "playing"
       THEN /\ roundIntervals' = roundIntervals - 1
            /\ roundTimers' = FALSE
            /\ UNCHANGED <<rooms, roundStartTimeouts>>
     ELSE IF Remaining(room, now) <= 0
       THEN /\ roundIntervals' = roundIntervals - 1
            /\ roundTimers' = FALSE
            /\ HandleEndRound
     ELSE UNCHANGED <<rooms, roundTimers, roundIntervals, roundStartTimeouts>>
  /\ UNCHANGED <<usedCodes, socketToPlayer, nextPlayerId, now, buzzVoteTimers, voteTimeouts,
                 updateIntervals, endRoundTimeouts, games, voteSeq, resolved>>

\* one firing of the setInterval callback of startRoundTimer
RoundTick ==
  /\ roundIntervals > 0
  /\ IF ~RoomExists \/ room.gameState # "playing"
       THEN /\ roundIntervals' = roundIntervals - 1
            /\ roundTimers' = FALSE
            /\ UNCHANGED <<rooms, roundStartTimeouts>>
     ELSE IF room.timerPaused
       THEN UNCHANGED <<rooms, roundTimers, roundIntervals, roundStartTimeouts>>
     ELSE IF Remaining(room, now) <= 0
       THEN /\ roundIntervals' = roundIntervals - 1
            /\ roundTimers' = FALSE
            /\ HandleEndRound
     ELSE UNCHANGED <<rooms, roundTimers, roundIntervals, roundStartTimeouts>>
  /\ UNCHANGED <<usedCodes, socketToPlayer, nextPlayerId, now, buzzVoteTimers, voteTimeouts,
                 updateIntervals, endRoundTimeouts, games, voteSeq, resolved>>

\* the setTimeout callback of startBuzzVoteTimer firing for the timeout h
VoteTimeout(h) ==
  /\ h \in voteTimeouts
  /\ h.deadline <= now
  /\ voteTimeouts' = voteTimeouts \ {h}
  /\ IF ~RoomExists
       THEN UNCHANGED <<rooms, buzzVoteTimers, resolved>>
       ELSE LET end == handleBuzzVoteEnd(room, now)
            IN /\ SetRoom(end.room)
               /\ buzzVoteTimers' = IF end.acted THEN 0 ELSE buzzVoteTimers
               /\ resolved' = IF end.acted
                                THEN Append(resolved, room.activeVote.id)
                                ELSE resolved
  /\ UNCHANGED <<usedCodes, socketToPlayer, nextPlayerId, now, roundTimers, roundIntervals,
                 updateIntervals, endRoundTimeouts, roundStartTimeouts, games, voteSeq>>

\* one firing of the vote-tick setInterval callback of startBuzzVoteTimer
VoteTick ==
  /\ updateIntervals > 0
  /\ updateIntervals' =
       IF \/ ~RoomExists
          \/ ~HasVoteOpen(room)
          \/ VOTE_DURATION - (now - room.activeVote.startTime) <= 0
         THEN updateIntervals - 1
         ELSE updateIntervals
  /\ UNCHANGED <<rooms, usedCodes, socketToPlayer, nextPlayerId, now, roundTimers,
                 roundIntervals, buzzVoteTimers, voteTimeouts, endRoundTimeouts,
                 roundStartTimeouts, games, voteSeq, resolved>>

\* the delayed handleEndRound scheduled by submitFix
EndRoundTimeout ==
  /\ Len(endRoundTimeouts) > 0
  /\ Head(endRoundTimeouts) <= now
  /\ endRoundTimeouts' = Tail(endRoundTimeouts)
  /\ HandleEndRound
  /\ UNCHANGED <<usedCodes, socketToPlayer, nextPlayerId, now, roundTimers, roundIntervals,
                 buzzVoteTimers, voteTimeouts, updateIntervals, games, voteSeq, resolved>>

\* the delayed round start scheduled by handleEndRound
RoundStartTimeout ==
  /\ Len(roundStartTimeouts) > 0
  /\ Head(roundStartTimeouts) <= now
  /\ roundStartTimeouts' = Tail(roundStartTimeouts)
  /\ StartRoundTimer
  /\ UNCHANGED <<rooms, usedCodes, socketToPlayer, nextPlayerId, now, buzzVoteTimers,
                 voteTimeouts, updateIntervals, endRoundTimeouts, games, voteSeq, resolved>>

\* the emptyTimeout callback of removePlayerFromRoom
EmptyTimeout ==
  /\ RoomExists
  /\ room.emptyTimeout # NoTime
  /\ room.emptyTimeout <= now
  /\ rooms' = IF Len(room.players) = 0
                THEN << >>
                ELSE [c \in {RoomCode} |-> [room EXCEPT !.emptyTimeout = NoTime]]
  /\ UNCHANGED <<usedCodes, socketToPlayer, nextPlayerId, now, roundTimers, roundIntervals,
                 buzzVoteTimers, voteTimeouts, updateIntervals, endRoundTimeouts,
                 roundStartTimeouts, games, voteSeq, resolved>>

\* --------------------------------------------------------------- clock
\* the instants at which a pending one-shot timer is due
Deadlines ==
  {h.deadline : h \in voteTimeouts}
    \cup Range(endRoundTimeouts) \cup Range(roundStartTimeouts)
    \cup (IF RoomExists /\ room.emptyTimeout # NoTime THEN {room.emptyTimeout} ELSE {})

\* the 1-second round tick is due and would end the round
RoundTickDue ==
  /\ roundIntervals > 0
  /\ RoomExists
  /\ room.gameState = "playing"
  /\ ~room.timerPaused
  /\ Remaining(room, now) <= 0

\* Time passes to a later instant, or to the instant a delayed round start
\* falls due; a timer that is due runs before the clock moves on.
Advance ==
  /\ ~RoundTickDue
  /\ \A d \in Deadlines : now < d
  /\ \E t \in Instants \cup Range(roundStartTimeouts) : t > now /\ now' = t
  /\ UNCHANGED <<rooms, usedCodes, socketToPlayer, nextPlayerId, roundTimers, roundIntervals,
                 buzzVoteTimers, voteTimeouts, updateIntervals, endRoundTimeouts,
                 roundStartTimeouts, games, voteSeq, resolved>>

Next ==
  \/ CreateRoom
  \/ JoinRoom
  \/ \E p \in PlayerIds : StartGame(p)
  \/ \E p \in PlayerIds : Buzz(p)
  \/ \E p \in PlayerIds, target \in PlayerIds \cup {SKIP} : CastBuzzVote(p, target)
  \/ \E p \in PlayerIds : SubmitFix(p)
  \/ \E p \in PlayerIds : NextRound(p)
  \/ \E p \in PlayerIds : PlayAgain(p)
  \/ \E p \in PlayerIds : LeaveRoom(p)
  \/ \E p \in PlayerIds : Disconnect(p)
  \/ RoundTick
  \/ \E h \in voteTimeouts : VoteTimeout(h)
  \/ EndRoundTimeout
  \/ RoundStartTimeout
  \/ EmptyTimeout
  \/ Advance

Spec == Init /\ [][Next]_vars

\* The lobby on its own: create, join, leave and disconnect with enough player
\* ids to fill a room and knock on a full one.
LobbyCreateRoom == CreateRoomUpTo(LobbyPlayers)

LobbyJoinRoom == JoinRoomUpTo(LobbyPlayers)

NextLobby ==
  \/ LobbyCreateRoom
  \/ LobbyJoinRoom
  \/ \E p \in 1..LobbyPlayers : LeaveRoom(p)
  \/ \E p \in 1..LobbyPlayers : Disconnect(p)

SpecLobby == Init /\ [][NextLobby]_vars

\* Round starts on their own: a room is filled with up to RoundPlayers players
\* and the host starts the game, under every shuffle and every random index
\* draw.
RoundsCreateRoom == CreateRoomUpTo(RoundPlayers)

RoundsJoinRoom == JoinRoomUpTo(RoundPlayers)

RoundsStartGame(p) == StartGameDrawing(p, Picks)

NextRounds ==
  \/ RoundsCreateRoom
  \/ RoundsJoinRoom
  \/ \E p \in 1..RoundPlayers : RoundsStartGame(p)

SpecRounds == Init /\ [][NextRounds]_vars

\* The vote tick only broadcasts voteTimeUpdate and ends itself; it writes no
\* room state.  SpecTicks adds it to the tasks of Spec.
NextTicks == Next \/ VoteTick

SpecTicks == Init /\ [][NextTicks]_vars

\* the earliest pending one-shot deadline
NextDeadline == CHOOSE d \in Deadlines : \A e \in Deadlines : d <= e

\* time passes until the earliest pending one-shot timer falls due
Elapse ==
  /\ ~RoundTickDue
  /\ Deadlines # {}
  /\ \A d \in Deadlines : now < d
  /\ now' = NextDeadline
  /\ UNCHANGED <<rooms, usedCodes, socketToPlayer, nextPlayerId, roundTimers, roundIntervals,
                 buzzVoteTimers, voteTimeouts, updateIntervals, endRoundTimeouts,
                 roundStartTimeouts, games, voteSeq, resolved>>

\* The life of a room from creation to deletion: players come and go, the
\* host may start the game, the round clock and the empty-room timeout run.
\* The event loop runs every timer callback that is due and time goes on.
NextEmptyRoom ==
  \/ CreateRoom
  \/ JoinRoom
  \/ \E p \in PlayerIds : StartGame(p)
  \/ \E p \in PlayerIds : LeaveRoom(p)
  \/ \E p \in PlayerIds : Disconnect(p)
  \/ RoundTick
  \/ EmptyTimeout
  \/ Advance
  \/ Elapse

SpecEmptyRoom ==
  /\ Init
  /\ [][NextEmptyRoom]_vars
  /\ WF_vars(RoundTick)
  /\ WF_vars(EmptyTimeout)
  /\ WF_vars(Elapse)

\* =============================================================== properties
\* ------------------------------------------------ vocabulary of the claims
\* enabled players of r, as a set of ids
EnabledIds(r) == {r.players[i].id : i \in {j \in DOMAIN r.players : ~r.players[j].disabled}}

\* disabled players of r, as a set of ids
DisabledIds(r) == PlayerIdsOf(r) \ EnabledIds(r)

\* players with an entry (vote or skip) in the open vote of r
Entered(r) == VoterIds(r.activeVote) \cup Range(r.activeVote.skips)

\* targets named by the votes of r, and the number of votes naming t
Targets(r) == {r.activeVote.votes[i].targetId : i \in DOMAIN r.activeVote.votes}

VotesFor(r, t) ==
  Cardinality({i \in DOMAIN r.activeVote.votes : r.activeVote.votes[i].targetId = t})

\* the targets with strictly more votes than every other target: empty or one id
StrictTop(r) ==
  {t \in Targets(r) : \A u \in Targets(r) \ {t} : VotesFor(r, t) > VotesFor(r, u)}

\* the outcomes of every castBuzzVote call a connected player can make now
Casts ==
  {castBuzzVote(room, p, target) : p \in socketToPlayer, target \in PlayerIds \cup {SKIP}}

\* the rooms handleBuzzVoteEnd can be handed in the current state: the room
\* as it is (vote timeout) or as the cast that completes the quorum leaves it
ResolvableRooms ==
  (IF HasVoteOpen(room) THEN {room} ELSE {})
    \cup {c.room : c \in {d \in Casts : d.error = "" /\ d.allVoted}}

\* a leaveRoom or disconnect task that runs while a vote is open
LeaveDuringVote ==
  /\ RoomExists
  /\ HasVoteOpen(room)
  /\ \E p \in PlayerIds : LeaveRoom(p) \/ Disconnect(p)

\* a buzz task that runs while a vote is open
BuzzDuringVote ==
  /\ RoomExists
  /\ HasVoteOpen(room)
  /\ \E p \in PlayerIds : Buzz(p)

\* C1: whenever a room has an open vote, its round timer is paused.
C1_VoteImpliesPaused ==
  RoomExists /\ HasVoteOpen(room) => room.timerPaused

\* a second vote is open, after the first one was resolved and the timer resumed
C1_Witness ==
  /\ RoomExists
  /\ HasVoteOpen(room)
  /\ room.activeVote.id = 2
  /\ resolved = <<1>>
  /\ room.timerPaused

\* C2: a buzz that arrives while a vote is open is rejected and leaves the
\* open vote (initiator, start time, votes, skips) as it was.
C2_BuzzDuringVoteRejected ==
  [][BuzzDuringVote =>
       /\ RoomExists'
       /\ HasVoteOpen(room')
       /\ room'.activeVote.initiatorId = room.activeVote.initiatorId
       /\ room'.activeVote.startTime = room.activeVote.startTime
       /\ room'.activeVote.votes = room.activeVote.votes
       /\ room'.activeVote.skips = room.activeVote.skips]_vars

\* C3: no vote is resolved twice, and every pending vote timeout belongs to
\* the vote that is open, so a timeout can only ever resolve its own vote.
C3_ResolvedOnce ==
  /\ \A i, j \in DOMAIN resolved : i # j => resolved[i] # resolved[j]
  /\ RoomExists /\ HasVoteOpen(room) =>
       \A h \in voteTimeouts : h.id = room.activeVote.id

\* vote 1 was resolved, vote 2 is open and its timeout is the pending one
C3_Witness ==
  /\ RoomExists
  /\ HasVoteOpen(room)
  /\ room.activeVote.id = 2
  /\ 1 \in Range(resolved)
  /\ \E h \in voteTimeouts : h.id = 2

\* C4: a leave or disconnect during an open vote cancels the vote: no vote
\* is open afterwards, no remaining player's disabled flag changes, and
\* gameState, winner and winReason stay as they were.
C4_LeaveCancelsVote ==
  [][LeaveDuringVote =>
       /\ RoomExists'
       /\ ~HasVoteOpen(room')
       /\ room'.gameState = room.gameState
       /\ room'.winner = room.winner
       /\ room'.winReason = room.winReason
       /\ \A q \in PlayerIdsOf(room') : IsDisabled(room', q) = IsDisabled(room, q)]_vars

\* the only vote of the only game is gone unresolved and a player has left
C4_Witness ==
  /\ RoomExists
  /\ games = 1
  /\ voteSeq = 1
  /\ resolved = << >>
  /\ room.gameState = "playing"
  /\ ~HasVoteOpen(room)
  /\ Len(room.players) = 2

\* C5: a leave or disconnect during an open vote resumes the round timer:
\* timerPaused is false afterwards and the time remaining is the frozen value.
C5_LeaveResumesTimer ==
  [][LeaveDuringVote =>
       /\ RoomExists'
       /\ ~room'.timerPaused
       /\ Remaining(room', now') = room.pausedTimeRemaining]_vars

\* C6: castBuzzVote by a player who already has a vote or a skip in the open
\* vote fails with "You have already voted" and changes nothing.
C6_SecondVoteRejected ==
  RoomExists /\ HasVoteOpen(room) =>
    \A v \in Entered(room), target \in PlayerIds \cup {SKIP} :
      LET res == castBuzzVote(room, v, target)
      IN /\ res.error = "You have already voted"
         /\ res.room = room

\* an open vote holding a vote and a skip
C6_Witness ==
  /\ RoomExists
  /\ HasVoteOpen(room)
  /\ Len(room.activeVote.votes) > 0
  /\ Len(room.activeVote.skips) > 0

\* C7: hasClearMajority is true exactly when some target has strictly more
\* votes than every other target (which needs at least one vote); the tally
\* is by vote counts alone, whatever the order the votes were recorded in.
C7_ClearMajority ==
  RoomExists =>
    \A r \in ResolvableRooms :
      LET res == getBuzzVoteResult(r)
      IN /\ res.hasClearMajority <=> StrictTop(r) # {}
         /\ res.hasClearMajority => res.playerToKick \in StrictTop(r)
         /\ res.maxVotes > 0 <=> Len(r.activeVote.votes) > 0

\* the same state can lead to a 2:1 resolution and to a tied one
C7_Witness ==
  /\ RoomExists
  /\ \E r1, r2 \in ResolvableRooms :
       /\ Len(r1.activeVote.votes) = 3
       /\ StrictTop(r1) # {}
       /\ Len(r2.activeVote.votes) = 2
       /\ StrictTop(r2) = {}

\* C8: resolving a vote keeps every seat; when the outcome is decisive the
\* top-voted target's disabled flag becomes true and nothing else about any
\* player changes; when it is not decisive no player changes.
C8_ResolutionOnlyDisables ==
  RoomExists =>
    \A r \in ResolvableRooms :
      LET after == handleBuzzVoteEnd(r, now).room
      IN /\ Len(after.players) = Len(r.players)
         /\ \A i \in DOMAIN r.players :
              after.players[i] =
                IF r.players[i].id \in StrictTop(r)
                  THEN [r.players[i] EXCEPT !.disabled = TRUE]
                  ELSE r.players[i]

\* a decisive vote was resolved: its target sits disabled among three seats
C8_Witness ==
  /\ RoomExists
  /\ Len(resolved) = 1
  /\ Len(room.players) = 3
  /\ Cardinality(DisabledIds(room)) = 1

\* what C9 and its original statement share: a disabled player opens no
\* vote, records no vote or skip, and is recorded as nobody's target
DisabledKeptOut ==
  /\ \A p \in DisabledIds(room) :
       /\ handleBuzz(room, p, now, voteSeq + 1).kind # "ok"
       /\ handleBuzz(room, p, now, voteSeq + 1).room = room
       /\ \A target \in PlayerIds \cup {SKIP} :
            /\ castBuzzVote(room, p, target).error # ""
            /\ castBuzzVote(room, p, target).room = room
       /\ \A q \in PlayerIdsOf(room) :
            /\ castBuzzVote(room, q, p).error # ""
            /\ castBuzzVote(room, q, p).room = room
  /\ HasVoteOpen(room) =>
       /\ room.activeVote.initiatorId \notin DisabledIds(room)
       /\ Entered(room) \cap DisabledIds(room) = {}
       /\ Targets(room) \cap DisabledIds(room) = {}

\* C9: a disabled player never opens a vote by buzzing, never records a vote
\* or a skip and is never recorded as a target; a vote by or for a disabled
\* player is answered with an error, and so is a disabled player's buzz while
\* the game is playing (outside playing a buzz gets no answer at all).
C9_DisabledKeptOut ==
  RoomExists =>
    /\ DisabledKeptOut
    /\ room.gameState = "playing" =>
         \A p \in DisabledIds(room) :
           /\ handleBuzz(room, p, now, voteSeq + 1).kind = "error"
           /\ handleBuzz(room, p, now, voteSeq + 1).error = "You are disabled and cannot buzz"

\* a vote is open in a playing room that seats a connected disabled player
C9_Witness ==
  /\ RoomExists
  /\ room.gameState = "playing"
  /\ HasVoteOpen(room)
  /\ DisabledIds(room) \cap socketToPlayer # {}

\* C9 as stated: every such attempt, a buzz included, is rejected with an error.
C9_AlwaysAnError ==
  RoomExists =>
    /\ DisabledKeptOut
    /\ \A p \in DisabledIds(room) : handleBuzz(room, p, now, voteSeq + 1).kind = "error"

\* C10: a successful castBuzzVote reports allVoted exactly when every enabled
\* player of the room has a vote or a skip in the vote; disabled players are
\* not waited for.
C10_AllVotedIsQuorum ==
  RoomExists =>
    \A c \in Casts :
      c.error = "" => (c.allVoted <=> EnabledIds(c.room) \subseteq Entered(c.room))

\* with a disabled player seated, the next cast completes the quorum
C10_Witness ==
  /\ RoomExists
  /\ HasVoteOpen(room)
  /\ DisabledIds(room) # {}
  /\ \E c \in Casts : c.error = "" /\ c.allVoted

\* delays, in ms from now, at which a running round is paused and resumed
PauseDelays == {0, 500, 45500, 60000, 120000}

\* C11: when a vote closes without ending the game, the round timer runs
\* again and the time remaining right after the resume is the value frozen
\* in pausedTimeRemaining, not the full round duration; the same holds for
\* a running round paused and resumed at any of the PauseDelays.
C11_ResumeKeepsFrozenTime ==
  RoomExists =>
    /\ \A r \in ResolvableRooms :
         LET end == handleBuzzVoteEnd(r, now)
         IN end.ended = "null" =>
              /\ ~end.room.timerPaused
              /\ Remaining(end.room, now) = r.pausedTimeRemaining
    /\ room.gameState = "playing" /\ ~room.timerPaused =>
         \A tp \in PauseDelays, tr \in PauseDelays :
           tp <= tr =>
             LET paused == pauseRoundTimer(room, now + tp)
                 resumed == resumeRoundTimer(paused, now + tr)
             IN /\ paused.pausedTimeRemaining = Max(0, Remaining(room, now + tp))
                /\ ~resumed.timerPaused
                /\ Remaining(resumed, now + tr) = paused.pausedTimeRemaining

\* late in the first game its only vote has been resolved and the running
\* clock shows the full frozen time again
C11_Witness ==
  /\ RoomExists
  /\ games = 1
  /\ Len(resolved) = 1
  /\ room.gameState = "playing"
  /\ ~room.timerPaused
  /\ now > 0
  /\ room.roundStartTime = now
  /\ Remaining(room, now) = ROUND_DURATION

\* C12: a vote is open only while gameState is playing.
C12_VoteOnlyWhilePlaying ==
  RoomExists /\ HasVoteOpen(room) => room.gameState = "playing"

\* C13: outside the results state winner and winReason are both null.
C13_WinnerOnlyInResults ==
  RoomExists /\ room.gameState # "results" =>
    /\ room.winner = "null"
    /\ room.winReason = << >>

\* C14: a decisive vote against the bugger ends the game for the debuggers:
\* buggerVotedOut is reported, the bugger is disabled, gameState is results,
\* the gameEnded announcement names the debuggers, the vote is closed and the
\* round timer stays paused as it was.
C14_BuggerVotedOut ==
  RoomExists =>
    \A r \in ResolvableRooms :
      StrictTop(r) = {r.bugger} =>
        LET end == handleBuzzVoteEnd(r, now)
        IN /\ getBuzzVoteResult(r).buggerVotedOut
           /\ IsDisabled(end.room, r.bugger)
           /\ end.room.gameState = "results"
           /\ end.ended = "debuggers"
           /\ ~HasVoteOpen(end.room)
           /\ end.room.timerPaused
           /\ end.room.roundStartTime = r.roundStartTime
           /\ end.room.pausedTimeRemaining = r.pausedTimeRemaining

\* the first game ended when its only vote disabled the bugger
C14_Witness ==
  /\ RoomExists
  /\ games = 1
  /\ Len(resolved) = 1
  /\ room.gameState = "results"
  /\ IsDisabled(room, room.bugger)
  /\ room.timerPaused

\* C15: after a decisive vote against a player other than the bugger, in a
\* playing room, the bugger wins exactly when the bugger is still enabled and
\* either no debugger is enabled any more or exactly two players are enabled;
\* otherwise the room stays playing, the vote is closed and the timer runs.
C15_BuggerWinRule ==
  RoomExists =>
    \A r \in ResolvableRooms :
      r.gameState = "playing" /\ StrictTop(r) # {} /\ StrictTop(r) # {r.bugger} =>
        LET end == handleBuzzVoteEnd(r, now)
            enabled == EnabledIds(r) \ StrictTop(r)
            buggerWins ==
              /\ r.bugger \in enabled
              /\ \/ Range(r.debuggers) \cap enabled = {}
                 \/ Cardinality(enabled) = 2
        IN /\ ~HasVoteOpen(end.room)
           /\ IF buggerWins
                THEN /\ end.ended = "buggers"
                     /\ end.room.gameState = "results"
                ELSE /\ end.ended = "null"
                     /\ end.room.gameState = "playing"
                     /\ ~end.room.timerPaused

\* a second vote disabled a debugger and play goes on, the bugger being
\* disabled already
C15_Witness ==
  /\ RoomExists
  /\ Len(resolved) = 2
  /\ room.gameState = "playing"
  /\ ~room.timerPaused
  /\ Cardinality(DisabledIds(room)) = 2
  /\ room.bugger \in DisabledIds(room)

\* the defects the end-of-game check can find in the final code
Defects(finalCode) ==
  IF ~finalCode.present THEN {}
  ELSE (IF finalCode.divide = "unguarded" THEN {"Divide bug: missing zero check"} ELSE {})
         \cup (IF finalCode.sqrt = "unguarded"
                 THEN {"SquareRoot bug: missing negative check"} ELSE {})
         \cup (IF ~finalCode.syntaxOk THEN {"Syntax error"} ELSE {})

\* C16: at the final round boundary endRound moves the room to results; the
\* bugger wins exactly when the final code has a defect (unguarded divide,
\* unguarded squareRoot, syntax error), the debuggers win otherwise, and a
\* bugger win lists every defect in winReason.  The room holds the code
\* sample of its round (it always does, unless an earlier endRound threw in
\* assignRoles on a room without players).
C16_FinalRoundOutcome ==
  RoomExists /\ room.currentRound >= room.totalRounds /\ room.currentCode.assigned =>
    \A finalCode \in FinalCodes, shuffled \in Shuffles(room), picks \in Draws :
      LET after == endRound(room, finalCode, shuffled, picks, now).room
      IN /\ after.gameState = "results"
         /\ after.winner = IF Defects(finalCode) # {} THEN "bugger" ELSE "debuggers"
         /\ Defects(finalCode) # {} => Defects(finalCode) \subseteq Range(after.winReason)

\* a game ended for the bugger with two defects listed
C16_Witness ==
  /\ RoomExists
  /\ room.gameState = "results"
  /\ room.winner = "bugger"
  /\ {"SquareRoot bug: missing negative check", "Syntax error"} \subseteq Range(room.winReason)

\* the room put into each gameState: addPlayerToRoom reads only the number
\* of players and gameState
InEachGameState(r) == {[r EXCEPT !.gameState = gs] : gs \in {"lobby", "playing", "results"}}

\* C17: addPlayerToRoom fails with "Room is full" on a room of six or more
\* and with "Game already in progress" outside the lobby, changing nothing;
\* it succeeds only in a lobby with room to spare, so no room ever holds more
\* than six players.
C17_AddPlayerErrors ==
  RoomExists =>
    /\ Len(room.players) <= MAX_ROOM_SIZE
    /\ \A r \in InEachGameState(room) :
         LET res == addPlayerToRoom(r, nextPlayerId + 1)
         IN /\ Len(r.players) >= MAX_ROOM_SIZE =>
                 res.error = "Room is full" /\ res.room = r
            /\ Len(r.players) < MAX_ROOM_SIZE /\ r.gameState # "lobby" =>
                 res.error = "Game already in progress" /\ res.room = r
            /\ res.error = "" <=> Len(r.players) < MAX_ROOM_SIZE /\ r.gameState = "lobby"

\* a full room, with one more player id ready to knock
C17_Witness ==
  /\ RoomExists
  /\ Len(room.players) = MAX_ROOM_SIZE
  /\ JoinRoomError(nextPlayerId + 1) = "Room is full"

\* player p may start the game in room r: p is its host and three are seated
MayStart(r, p) ==
  /\ HasPlayer(r, p)
  /\ GetPlayer(r, p).isHost
  /\ Len(r.players) >= MIN_PLAYERS

\* C18: startGame by a player who is not the host, or in a room of fewer
\* than three, is answered with an error and leaves the room as it was;
\* startGame by the host of a room of three or more sets gameState to playing
\* and currentRound to 1.
C18_StartGameHostOnly ==
  /\ [](RoomExists =>
          \A p \in socketToPlayer :
            /\ ~MayStart(room, p) => StartGameError(room, p) # ""
            /\ MayStart(room, p) => StartGameError(room, p) = ""
            /\ Len(room.players) < MIN_PLAYERS =>
                 \A shuffled \in Shuffles(room), picks \in Draws :
                   /\ startGame(room, shuffled, picks, now).error # ""
                   /\ startGame(room, shuffled, picks, now).room = room)
  /\ [][\A p \in PlayerIds :
          StartGame(p) =>
            IF MayStart(room, p)
              THEN room'.gameState = "playing" /\ room'.currentRound = 1
              ELSE rooms' = rooms]_vars

\* a game is running in its first round while a player who is not the host
\* is connected
C18_Witness ==
  /\ RoomExists
  /\ room.gameState = "playing"
  /\ room.currentRound = 1
  /\ \E p \in socketToPlayer : HasPlayer(room, p) /\ ~GetPlayer(room, p).isHost

\* C19: a room with players has exactly one player flagged isHost and hostId
\* is that player's id; a room without players has hostId null.
C19_OneHost ==
  RoomExists =>
    IF Len(room.players) = 0
      THEN room.hostId = NoPlayer
      ELSE /\ Cardinality({i \in DOMAIN room.players : room.players[i].isHost}) = 1
           /\ HasPlayer(room, room.hostId)
           /\ GetPlayer(room, room.hostId).isHost

\* the creator has left and a later player hosts a room of several
C19_Witness ==
  /\ RoomExists
  /\ Len(room.players) > 1
  /\ room.hostId > 1
  /\ GetPlayer(room, room.hostId).isHost

\* C20: the bugger is never listed among the debuggers and the debuggers list
\* names nobody twice.
C20_BuggerNotDebugger ==
  RoomExists =>
    /\ room.bugger \notin Range(room.debuggers)
    /\ \A i, j \in DOMAIN room.debuggers : i # j => room.debuggers[i] # room.debuggers[j]

\* roles are assigned: a bugger and two debuggers
C20_Witness ==
  /\ RoomExists
  /\ room.bugger # NoPlayer
  /\ Len(room.debuggers) = 2

\* the error strings castBuzzVote can answer the players of the room with now
CastErrors ==
  {castBuzzVote(room, p, target).error : p \in PlayerIds, target \in PlayerIds \cup {SKIP}}

\* C21: a rejected action changes nothing: castBuzzVote answered with any of
\* its errors and a buzz answered with the disabled error hand back the room
\* as it was, and a submitFix answered with an error leaves the room and the
\* pending end-of-round calls as they were.
C21_RejectedChangesNothing ==
  RoomExists =>
    \A p \in PlayerIds :
      /\ \A target \in PlayerIds \cup {SKIP} :
           castBuzzVote(room, p, target).error # "" =>
             castBuzzVote(room, p, target).room = room
      /\ handleBuzz(room, p, now, voteSeq + 1).kind = "error" =>
           handleBuzz(room, p, now, voteSeq + 1).room = room
      /\ LET res == submitFix(room, p, endRoundTimeouts, now)
         IN res.error # "" =>
              res.room = room /\ res.endRoundTimeouts = endRoundTimeouts

\* a vote is open in a room with a disabled player and a recorded vote: a
\* cast can be refused for four reasons, a buzz for being disabled and a fix
\* for the open vote
C21_Witness ==
  /\ RoomExists
  /\ HasVoteOpen(room)
  /\ { "You are disabled and cannot vote", "You have already voted",
       "Cannot vote for an already disabled player",
       "You cannot vote for yourself" } \subseteq CastErrors
  /\ \E p \in socketToPlayer : handleBuzz(room, p, now, voteSeq + 1).kind = "error"
  /\ validateFix(room, room.buzzedPlayer) = "Wait for vote to complete"

\* a timer callback that fires when its room is gone or no longer playing
StaleRoundCallback ==
  /\ ~RoomExists \/ room.gameState # "playing"
  /\ RoundTick \/ EndRoundTimeout \/ RoundStartTimeout

\* a vote timeout that fires when its room is gone or no vote is open
StaleVoteCallback ==
  /\ ~RoomExists \/ ~HasVoteOpen(room)
  /\ \E h \in voteTimeouts : VoteTimeout(h)

\* C22: a timer callback (round tick, vote timeout, delayed end-of-round,
\* delayed round start) that fires after its room was deleted, or when the
\* room is not playing any more (for the vote timeout: when no vote is open),
\* changes no room state.
C22_StaleTimerNoOp ==
  [][StaleRoundCallback \/ StaleVoteCallback => rooms' = rooms]_vars

\* the rooms Map after createRoom(code, hostId, hostName): rooms.set(code, room)
RoomsAfterCreate(store, code, hostId, t) ==
  [c \in DOMAIN store \cup {code} |-> IF c = code THEN createRoom(hostId, t) ELSE store[c]]

\* C23: createRoom with the code of an existing room leaves that room (its
\* players and game state) unchanged in the store.
C23_CreateKeepsExistingRoom ==
  RoomExists =>
    RoomsAfterCreate(rooms, RoomCode, nextPlayerId + 1, now)[RoomCode] = room

\* C24: a deletion is pending exactly while the room has no players (it is
\* scheduled when the last player is removed and cancelled by a join), only
\* a room without players is ever deleted, and a room without players is
\* eventually deleted unless a player joins it first.
C24_EmptyRoomDeleted ==
  /\ [](RoomExists => (room.emptyTimeout # NoTime <=> Len(room.players) = 0))
  /\ [][RoomExists /\ ~RoomExists' =>
          Len(room.players) = 0 /\ room.emptyTimeout <= now]_vars
  /\ (RoomExists /\ Len(room.players) = 0) ~> (~RoomExists \/ Len(room.players) > 0)

\* the room is gone, 30 seconds or more after its last player left
C24_Witness ==
  /\ ~RoomExists
  /\ RoomCode \in usedCodes
  /\ socketToPlayer = {}
  /\ now >= EMPTY_ROOM_DELAY

\* C25: submitFix is accepted only from the player who holds the buzz, only
\* while no vote is open and only while the game is in progress; any other
\* submitFix is rejected and schedules no end-of-round.
C25_SubmitFixOnlyInPlay ==
  RoomExists =>
    \A p \in PlayerIds :
      LET res == submitFix(room, p, endRoundTimeouts, now)
      IN IF room.buzzedPlayer = p /\ ~HasVoteOpen(room) /\ room.gameState = "playing"
           THEN res.error = ""
           ELSE res.error # "" /\ res.endRoundTimeouts = endRoundTimeouts

\* a handleEndRound task (round tick at zero, or the delayed call of
\* submitFix) that finds the room before its final round
EndsRoundBeforeFinal ==
  /\ RoomExists
  /\ room.currentRound < room.totalRounds
  /\ rooms' # rooms
  /\ RoundTick \/ EndRoundTimeout

\* C26: when a round ends before the final round, currentRound goes up by
\* exactly 1, roles are reassigned to the players, a new round is started
\* (roundStartTime reset, buzzedPlayer and activeVote cleared), gameState is
\* playing and no winner is set.
C26_NextRoundStarted ==
  [][EndsRoundBeforeFinal =>
       /\ room'.currentRound = room.currentRound + 1
       /\ HasPlayer(room', room'.bugger)
       /\ Range(room'.debuggers) = PlayerIdsOf(room') \ {room'.bugger}
       /\ room'.roundStartTime = now
       /\ room'.buzzedPlayer = NoPlayer
       /\ ~HasVoteOpen(room')
       /\ room'.gameState = "playing"
       /\ room'.winner = "null"]_vars

\* C27: a round tick that finds the timer paused changes nothing in the room
\* and triggers no end-of-round evaluation: the round ends by timeout only
\* while timerPaused is false.
C27_PausedTickIdle ==
  [][RoomExists /\ room.timerPaused /\ RoundTick =>
       /\ rooms' = rooms
       /\ roundStartTimeouts' = roundStartTimeouts]_vars

\* the round's 90 seconds have run out while a vote keeps the timer paused,
\* and the tick interval is live
C27_Witness ==
  /\ RoomExists
  /\ room.gameState = "playing"
  /\ room.timerPaused
  /\ roundIntervals > 0
  /\ Remaining(room, now) <= 0

\* C28: in a playing room the round timer is running whenever no vote is
\* open (timerPaused is false and a tick interval is live), so that the
\* remaining time reaches 0 and the round is ended.
C28_TimerRunsWithoutVote ==
  RoomExists /\ room.gameState = "playing" /\ ~HasVoteOpen(room) =>
    ~room.timerPaused /\ roundIntervals > 0

\* C29: an opened vote is closed at the latest when the 60-second timeout
\* scheduled by its buzz fires: for as long as activeVote stays set, that
\* timeout stays pending, so that activeVote becomes none even if nobody votes.
C29_VoteClosedByItsTimeout ==
  [][RoomExists /\ HasVoteOpen(room) /\ RoomExists' /\ HasVoteOpen(room') =>
       voteTimeouts \subseteq voteTimeouts']_vars

\* the roles of r are those of a fresh assignment: one bugger, who is the
\* player room.bugger names, and every other player a listed debugger
RolesAssigned(r) ==
  /\ Cardinality({i \in DOMAIN r.players : r.players[i].role = "bugger"}) = 1
  /\ HasPlayer(r, r.bugger)
  /\ GetPlayer(r, r.bugger).role = "bugger"
  /\ \A i \in DOMAIN r.players :
       r.players[i].id # r.bugger => r.players[i].role = "debugger"
  /\ Range(r.debuggers) = PlayerIdsOf(r) \ {r.bugger}
  /\ Len(r.debuggers) = Len(r.players) - 1

\* C30: immediately after role assignment exactly one current player has
\* role bugger, every other current player has role debugger, and the bugger
\* together with the debuggers are exactly the players in the room; this holds
\* whatever roles the players held before and whatever the shuffle.
C30_RolesAfterAssign ==
  RoomExists /\ Len(room.players) > 0 =>
    \A shuffled \in Shuffles(room) : RolesAssigned(assignRoles(room, shuffled))

\* a second game was started on top of the roles of the first and the roles
\* are those of a fresh assignment
C30_Witness ==
  /\ RoomExists
  /\ games = 2
  /\ room.gameState = "playing"
  /\ Len(room.players) = MIN_PLAYERS
  /\ RolesAssigned(room)

\* a step that assigns roles: a startGame that goes through, or an end of
\* round that moves on to the next round
AssignsRoles ==
  /\ RoomExists
  /\ rooms' # rooms
  /\ (\E p \in PlayerIds : StartGame(p)) \/ EndsRoundBeforeFinal

\* C31: a player disabled by a vote is left out of every later role
\* assignment: after the assignment the disabled player is neither the bugger
\* nor among the debuggers, and is still in players.
C31_DisabledGetNoRole ==
  [][AssignsRoles =>
       \A d \in DisabledIds(room) :
         /\ HasPlayer(room', d)
         /\ d # room'.bugger
         /\ d \notin Range(room'.debuggers)]_vars

Min(a, b) == IF a <= b THEN a ELSE b

\* the bug ids of the sample
BugIds == Range(Bugs)

\* a is an assignment of bugs to the debuggers ds without replacement: the
\* first min(|ds|, |Bugs|) debuggers, in order, get one bug each, all different
WithoutReplacement(a, ds) ==
  /\ Len(a) = Min(Len(ds), Len(Bugs))
  /\ \A i \in DOMAIN a : a[i].playerId = ds[i] /\ a[i].bug \in BugIds
  /\ \A i, j \in DOMAIN a : i # j => a[i].bug # a[j].bug /\ a[i].playerId # a[j].playerId

\* C32: at round start bugs are assigned without replacement: the bug
\* assignments of the room give the first min(#debuggers, #bugs) debuggers one
\* bug each, no debugger or bug appears twice, later debuggers and the bugger
\* get none; the same holds for startRound on every shorter debuggers list
\* and every sequence of random draws.
C32_BugsWithoutReplacement ==
  RoomExists /\ room.currentCode.assigned =>
    /\ WithoutReplacement(room.currentCode.bugAssignments, room.debuggers)
    /\ \A i \in DOMAIN room.currentCode.bugAssignments :
         room.currentCode.bugAssignments[i].playerId # room.bugger
    /\ \A k \in 0..Len(room.debuggers), picks \in Picks :
         LET ds == SubSeq(room.debuggers, 1, k)
         IN WithoutReplacement(
              startRound([room EXCEPT !.debuggers = ds], picks, now).currentCode.bugAssignments,
              ds)

\* a round of five players: four debuggers, the first two hold the two bugs,
\* drawn in reverse order
C32_Witness ==
  /\ RoomExists
  /\ room.currentCode.assigned
  /\ Len(room.debuggers) = 4
  /\ Len(room.currentCode.bugAssignments) = 2
  /\ room.currentCode.bugAssignments[1].bug = "bug2"
  /\ room.currentCode.bugAssignments[2].bug = "bug1"

\* the sequences of bug assignments a round can inject: each bug at most once
InjectionOrders ==
  {a \in UNION {[1..n -> [playerId : {NoPlayer}, bug : BugIds]] : n \in 0..Len(Bugs)} :
     \A i, j \in DOMAIN a : i # j => a[i].bug # a[j].bug}

\* the guard clause of bugId is still in code, right after its method head
HasGuard(code, bugId) == Matches(code, BugPattern(bugId)) # {}

\* correctCode without the guard clauses of the bug ids in S
WithoutGuards(S) ==
  LET Kept(stmt) == \A b \in S : stmt # BugPattern(b)[2]
  IN SelectSeq(correctCode, Kept)

\* C33: initialBuggyCode is correctCode without exactly the guard clauses of
\* the assigned bugs: a guard is missing if and only if its bug id is in
\* bugAssignments, in whatever order the bugs were injected; and a bug
\* transform whose pattern is absent (an unknown id, or the same transform a
\* second time) leaves the code unchanged.
C33_BuggyCodeIsGuardsRemoved ==
  /\ RoomExists /\ room.currentCode.assigned =>
       LET assigned == {room.currentCode.bugAssignments[i].bug :
                          i \in DOMAIN room.currentCode.bugAssignments}
       IN /\ room.currentCode.initialBuggyCode = WithoutGuards(assigned)
          /\ \A b \in BugIds :
               HasGuard(room.currentCode.initialBuggyCode, b) <=> b \notin assigned
  /\ \A a \in InjectionOrders :
       LET code == InjectAll(correctCode, a)
           ids == {a[i].bug : i \in DOMAIN a}
       IN /\ code = WithoutGuards(ids)
          /\ \A b \in BugIds : HasGuard(code, b) <=> b \notin ids
          /\ \A b \in BugIds \cup {"bug3"} :
               /\ ~HasGuard(code, b) => injectBug(code, b) = code
               /\ injectBug(injectBug(code, b), b) = injectBug(code, b)

\* a round whose buggy code has lost both guards, squareRoot's first
C33_Witness ==
  /\ RoomExists
  /\ room.currentCode.assigned
  /\ room.currentCode.bugAssignments[1].bug = "bug2"
  /\ Len(room.currentCode.initialBuggyCode) = Len(correctCode) - 2
  /\ ~HasGuard(room.currentCode.initialBuggyCode, "bug1")
  /\ ~HasGuard(room.currentCode.initialBuggyCode, "bug2")

\* C34: when the host leaves a room that keeps players, the earliest-joined
\* remaining player becomes the host (hostId and isHost); when another
\* player leaves, the host stays who it was.
C34_HostSuccession ==
  RoomExists =>
    \A p \in PlayerIdsOf(room) :
      LET after == removePlayerFromRoom(room, p, now)
          IsOther(q) == q.id # p
          rest == SelectSeq(room.players, IsOther)
      IN /\ PlayerIdsOf(after) = PlayerIdsOf(room) \ {p}
         /\ p = room.hostId /\ Len(rest) > 0 =>
              /\ after.hostId = rest[1].id
              /\ after.players[1].id = rest[1].id
              /\ after.players[1].isHost
         /\ p # room.hostId =>
              /\ after.hostId = room.hostId
              /\ after.players = rest

\* the creator and the second player have left: the room is hosted by the
\* third player to have joined, who sits first among the two that remain
C34_Witness ==
  /\ RoomExists
  /\ Len(room.players) = 2
  /\ room.hostId = 3
  /\ room.players[1].id = 3
  /\ room.players[1].isHost

\* C35: a leave or disconnect never ends the game: whoever leaves, the
\* bugger included, and whatever the remaining players add up to, gameState,
\* winner and winReason are after the leave what they were before it.
C35_LeaveNeverEndsGame ==
  RoomExists =>
    \A p \in PlayerIdsOf(room) :
      LET after == LeaveResult(room, p, now)
      IN /\ after.gameState = room.gameState
         /\ after.winner = room.winner
         /\ after.winReason = room.winReason

\* the game plays on although the bugger has left and a single debugger
\* remains
C35_Witness ==
  /\ RoomExists
  /\ room.gameState = "playing"
  /\ games = 1
  /\ room.bugger # NoPlayer
  /\ ~HasPlayer(room, room.bugger)
  /\ Len(room.players) = 1
  /\ room.winner = "null"

\* C36: per room at most one round-tick interval is live, at most one
\* vote-resolution timeout is pending and at most one vote-tick interval is
\* live, and a vote-resolution timeout is pending only while a vote is open.
C36_OneTimerOfEachKind ==
  /\ roundIntervals <= 1
  /\ Cardinality(voteTimeouts) <= 1
  /\ RoomExists /\ HasVoteOpen(room) => updateIntervals <= 1
  /\ RoomExists /\ ~HasVoteOpen(room) => voteTimeouts = {}

\* the gameState changes the life cycle allows
AllowedGameStateSteps ==
  {<<"lobby", "playing">>, <<"playing", "results">>, <<"results", "lobby">>}

\* C37: gameState changes only from lobby to playing, from playing to
\* results and from results to lobby; startGame changes nothing unless the
\* room is in lobby, an end of round changes nothing unless the room is
\* playing, and playAgain changes nothing unless the room is in results.
C37_GameStateCycle ==
  [][RoomExists /\ RoomExists' =>
       /\ room'.gameState # room.gameState =>
            <<room.gameState, room'.gameState>> \in AllowedGameStateSteps
       /\ room.gameState # "lobby" /\ (\E p \in PlayerIds : StartGame(p)) =>
            rooms' = rooms
       /\ room.gameState # "playing" /\ (RoundTick \/ EndRoundTimeout) =>
            rooms' = rooms
       /\ room.gameState # "results" /\ (\E p \in PlayerIds : PlayAgain(p)) =>
            rooms' = rooms]_vars

\* C38: the outcome of a game is decided once: while gameState stays
\* results no step changes the winner or disables a player.
C38_OutcomeDecidedOnce ==
  [][RoomExists /\ room.gameState = "results" /\ RoomExists' /\ room'.gameState = "results" =>
       /\ room'.winner = room.winner
       /\ \A q \in PlayerIdsOf(room') : IsDisabled(room', q) = IsDisabled(room, q)]_vars

\* C39: while a vote is open its record is well-formed: buzzedPlayer is the
\* vote's initiator, nobody has both a vote and a skip (nor two of either),
\* every voter and skipper is an enabled player of the room, and every target
\* is an enabled player of the room other than its voter.
C39_VoteWellFormed ==
  RoomExists /\ HasVoteOpen(room) =>
    LET v == room.activeVote
    IN /\ room.buzzedPlayer = v.initiatorId
       /\ VoterIds(v) \cap Range(v.skips) = {}
       /\ Cardinality(VoterIds(v)) = Len(v.votes)
       /\ Cardinality(Range(v.skips)) = Len(v.skips)
       /\ Entered(room) \subseteq EnabledIds(room)
       /\ \A i \in DOMAIN v.votes :
            /\ v.votes[i].targetId \in EnabledIds(room)
            /\ v.votes[i].targetId # v.votes[i].voterId

\* a vote is open with one vote and one skip recorded
C39_Witness ==
  /\ RoomExists /\ HasVoteOpen(room)
  /\ Len(room.activeVote.votes) >= 1
  /\ Len(room.activeVote.skips) >= 1

\* C40: every round starts with a running clock: right after a startGame that
\* goes through or an advance to the next round, timerPaused is false and the
\* remaining time is the full roundDuration.
C40_RoundStartsRunning ==
  [][AssignsRoles =>
       /\ ~room'.timerPaused
       /\ Remaining(room', now') = room'.roundDuration]_vars

====
